---- MODULE Spec2Model ----
(***************************************************************************)
(* Model of the mudkip NES emulator core: the 6502 opcode decoder          *)
(* (cpu/instructions.rs), the CPU state and its single-step operation      *)
(* (cpu/mod.rs) and the addressing-mode operations (CPU/mod.rs).           *)
(***************************************************************************)
EXTENDS Integers, Sequences, FiniteSets, TLC

\* ---------------------------------------------------------------- bounds
\* Longest program image loaded into the CPU.
MaxProgLen == 5
\* Longest program image of the specification that runs both step snapshots
\* and the power-on / reset operations.
MaxCpuProgLen == 3
MaxPrgPages == 1
MaxChrPages == 1
\* Most PRG pages of a disassembled image: with three the offsets pass 0x8000.
MaxDisasmPages == 3

\* ------------------------------------------------------ program constants
\* type OpCode = u8: the number of opcode byte values.
ByteRange == 256
\* type Address = u16: the program counter wraps at this modulus.
AddressRange == 65536
\* type WorkingMemory = [u8; 2048]
WorkingMemorySize == 2048

Byte == 0..(ByteRange - 1)

\* Bytes the model draws program images from: BRK, an undefined opcode,
\* ORA zpg, ASL abs, ADC imm, LDA imm, LDA abs, NOP.
ProgBytes == {0, 3, 5, 14, 105, 169, 173, 234}

\* Values the model passes to the write operations.
WriteValues == {0, 255}

\* ------------------------------------------------------------ data types
\* enum Mnemonic, without its UNKNOWN variant.
Mnemonic ==
    {"LDA", "LDX", "LDY", "STA", "STX", "STY", "TAX", "TAY", "TSX", "TXA", "TXS", "TYA",
     "ADC", "DEC", "DEX", "DEY", "INC", "INX", "INY", "SBC",
     "AND", "ASL", "BIT", "EOR", "LSR", "ORA", "ROL", "ROR",
     "BCC", "BCS", "BEQ", "BMI", "BNE", "BPL", "BVC", "BVS",
     "JMP", "JSR", "RTI", "RTS",
     "CLC", "CLD", "CLI", "CLV", "CMP", "CPX", "CPY", "SEC", "SED", "SEI",
     "PHA", "PHP", "PLA", "PLP",
     "BRK", "NOP"}

\* enum AddressingMode, without its UNKNOWN variant.
AddressingMode ==
    {"ZPG", "ZPX", "ZPY", "ABS", "ABX", "ABY", "IND", "IMP", "ACC", "IMM", "REL", "IDX", "IDY"}

\* struct Instruction
Instruction ==
    [opcode : Byte, mnemonic : Mnemonic \cup {"UNKNOWN"},
     mode : AddressingMode \cup {"UNKNOWN"}, length : Byte, cycles : Byte]

\* Instruction::new
Instruction_new(opcode, mnemonic, mode, length, cycles) ==
    [opcode |-> opcode, mnemonic |-> mnemonic, mode |-> mode,
     length |-> length, cycles |-> cycles]

\* The value a call yields when it panics instead of returning.
Panicked(msg, value) == [msg |-> msg, value |-> value]
NoPanic == Panicked("none", 0)

\* ---------------------------------------------------------------- decode
\* The match expression of decode: opcode -> (mnemonic, mode, length, cycles).
OpcodeMatch(opcode) ==
    CASE opcode = 169 -> <<"LDA", "IMM", 2, 2>>  \* 0xa9
      [] opcode = 165 -> <<"LDA", "ZPG", 2, 3>>  \* 0xa5
      [] opcode = 181 -> <<"LDA", "ZPX", 2, 4>>  \* 0xb5
      [] opcode = 173 -> <<"LDA", "ABS", 3, 4>>  \* 0xad
      [] opcode = 189 -> <<"LDA", "ABX", 3, 4>>  \* 0xbd
      [] opcode = 185 -> <<"LDA", "ABY", 3, 4>>  \* 0xb9
      [] opcode = 161 -> <<"LDA", "IDX", 2, 6>>  \* 0xa1
      [] opcode = 177 -> <<"LDA", "IDY", 2, 5>>  \* 0xb1
      [] opcode = 162 -> <<"LDX", "IMM", 2, 2>>  \* 0xa2
      [] opcode = 166 -> <<"LDX", "ZPG", 2, 3>>  \* 0xa6
      [] opcode = 182 -> <<"LDX", "ZPY", 2, 4>>  \* 0xb6
      [] opcode = 174 -> <<"LDX", "ABS", 3, 4>>  \* 0xae
      [] opcode = 190 -> <<"LDX", "ABY", 3, 4>>  \* 0xbe
      [] opcode = 160 -> <<"LDY", "IMM", 2, 2>>  \* 0xa0
      [] opcode = 164 -> <<"LDY", "ZPG", 2, 3>>  \* 0xa4
      [] opcode = 180 -> <<"LDY", "ZPX", 2, 4>>  \* 0xb4
      [] opcode = 172 -> <<"LDY", "ABS", 3, 4>>  \* 0xac
      [] opcode = 188 -> <<"LDY", "ABX", 3, 4>>  \* 0xbc
      [] opcode = 133 -> <<"STA", "ZPG", 2, 3>>  \* 0x85
      [] opcode = 149 -> <<"STA", "ZPX", 2, 4>>  \* 0x95
      [] opcode = 141 -> <<"STA", "ABS", 3, 4>>  \* 0x8d
      [] opcode = 157 -> <<"STA", "ABX", 3, 5>>  \* 0x9d
      [] opcode = 153 -> <<"STA", "ABY", 3, 5>>  \* 0x99
      [] opcode = 129 -> <<"STA", "IDX", 2, 6>>  \* 0x81
      [] opcode = 145 -> <<"STA", "IDY", 2, 6>>  \* 0x91
      [] opcode = 134 -> <<"STX", "ZPG", 2, 3>>  \* 0x86
      [] opcode = 150 -> <<"STX", "ZPY", 2, 4>>  \* 0x96
      [] opcode = 142 -> <<"STX", "ABS", 3, 4>>  \* 0x8e
      [] opcode = 132 -> <<"STY", "ZPG", 2, 3>>  \* 0x84
      [] opcode = 148 -> <<"STY", "ZPX", 2, 4>>  \* 0x94
      [] opcode = 140 -> <<"STY", "ABS", 3, 4>>  \* 0x8c
      [] opcode = 170 -> <<"TAX", "IMP", 1, 2>>  \* 0xaa
      [] opcode = 168 -> <<"TAY", "IMP", 1, 2>>  \* 0xa8
      [] opcode = 186 -> <<"TSX", "IMP", 1, 2>>  \* 0xba
      [] opcode = 138 -> <<"TXA", "IMP", 1, 2>>  \* 0x8a
      [] opcode = 154 -> <<"TXS", "IMP", 1, 2>>  \* 0x9a
      [] opcode = 152 -> <<"TYA", "IMP", 1, 2>>  \* 0x98
      [] opcode = 105 -> <<"ADC", "IMM", 2, 2>>  \* 0x69
      [] opcode = 101 -> <<"ADC", "ZPG", 2, 3>>  \* 0x65
      [] opcode = 117 -> <<"ADC", "ZPX", 2, 4>>  \* 0x75
      [] opcode = 109 -> <<"ADC", "ABS", 3, 4>>  \* 0x6d
      [] opcode = 125 -> <<"ADC", "ABX", 3, 4>>  \* 0x7d
      [] opcode = 121 -> <<"ADC", "ABY", 3, 4>>  \* 0x79
      [] opcode =  97 -> <<"ADC", "IDX", 2, 6>>  \* 0x61
      [] opcode = 113 -> <<"ADC", "IDY", 2, 5>>  \* 0x71
      [] opcode = 198 -> <<"DEC", "ZPG", 2, 5>>  \* 0xc6
      [] opcode = 214 -> <<"DEC", "ZPX", 2, 6>>  \* 0xd6
      [] opcode = 206 -> <<"DEC", "ABS", 3, 6>>  \* 0xce
      [] opcode = 222 -> <<"DEC", "ABX", 3, 7>>  \* 0xde
      [] opcode = 202 -> <<"DEX", "IMP", 1, 2>>  \* 0xca
      [] opcode = 136 -> <<"DEY", "IMP", 1, 2>>  \* 0x88
      [] opcode = 230 -> <<"INC", "ZPG", 2, 5>>  \* 0xe6
      [] opcode = 246 -> <<"INC", "ZPX", 2, 6>>  \* 0xf6
      [] opcode = 238 -> <<"INC", "ABS", 3, 6>>  \* 0xee
      [] opcode = 254 -> <<"INC", "ABX", 3, 7>>  \* 0xfe
      [] opcode = 232 -> <<"INX", "IMP", 1, 2>>  \* 0xe8
      [] opcode = 200 -> <<"INY", "IMP", 1, 2>>  \* 0xc8
      [] opcode = 233 -> <<"SBC", "IMM", 2, 2>>  \* 0xe9
      [] opcode = 229 -> <<"SBC", "ZPG", 2, 3>>  \* 0xe5
      [] opcode = 245 -> <<"SBC", "ZPX", 2, 4>>  \* 0xf5
      [] opcode = 237 -> <<"SBC", "ABS", 3, 5>>  \* 0xed
      [] opcode = 253 -> <<"SBC", "ABX", 3, 5>>  \* 0xfd
      [] opcode = 249 -> <<"SBC", "ABY", 3, 5>>  \* 0xf9
      [] opcode = 225 -> <<"SBC", "IDX", 2, 6>>  \* 0xe1
      [] opcode = 241 -> <<"SBC", "IDY", 2, 5>>  \* 0xf1
      [] opcode =  41 -> <<"AND", "IMM", 2, 2>>  \* 0x29
      [] opcode =  37 -> <<"AND", "ZPG", 2, 3>>  \* 0x25
      [] opcode =  53 -> <<"AND", "ZPX", 2, 4>>  \* 0x35
      [] opcode =  45 -> <<"AND", "ABS", 3, 4>>  \* 0x2d
      [] opcode =  61 -> <<"AND", "ABX", 3, 4>>  \* 0x3d
      [] opcode =  57 -> <<"AND", "ABY", 3, 4>>  \* 0x39
      [] opcode =  33 -> <<"AND", "IDX", 2, 6>>  \* 0x21
      [] opcode =  49 -> <<"AND", "IDY", 2, 5>>  \* 0x31
      [] opcode =  10 -> <<"ASL", "ACC", 1, 2>>  \* 0x0a
      [] opcode =   6 -> <<"ASL", "ZPG", 2, 5>>  \* 0x06
      [] opcode =  22 -> <<"ASL", "ZPX", 2, 6>>  \* 0x16
      [] opcode =  14 -> <<"ASL", "ABS", 4, 6>>  \* 0x0e
      [] opcode =  30 -> <<"ASL", "ABX", 4, 7>>  \* 0x1e
      [] opcode =  36 -> <<"BIT", "ZPG", 2, 3>>  \* 0x24
      [] opcode =  44 -> <<"BIT", "ABS", 3, 4>>  \* 0x2c
      [] opcode =  73 -> <<"EOR", "IMM", 2, 2>>  \* 0x49
      [] opcode =  69 -> <<"EOR", "ZPG", 2, 3>>  \* 0x45
      [] opcode =  85 -> <<"EOR", "ZPX", 2, 4>>  \* 0x55
      [] opcode =  77 -> <<"EOR", "ABS", 3, 4>>  \* 0x4d
      [] opcode =  93 -> <<"EOR", "ABX", 3, 4>>  \* 0x5d
      [] opcode =  89 -> <<"EOR", "ABY", 3, 4>>  \* 0x59
      [] opcode =  65 -> <<"EOR", "IDX", 2, 6>>  \* 0x41
      [] opcode =  81 -> <<"EOR", "IDY", 2, 5>>  \* 0x51
      [] opcode =  74 -> <<"LSR", "ACC", 1, 2>>  \* 0x4a
      [] opcode =  70 -> <<"LSR", "ZPG", 2, 5>>  \* 0x46
      [] opcode =  86 -> <<"LSR", "ZPX", 2, 6>>  \* 0x56
      [] opcode =  78 -> <<"LSR", "ABS", 3, 6>>  \* 0x4e
      [] opcode =  94 -> <<"LSR", "ABX", 3, 7>>  \* 0x5e
      [] opcode =   9 -> <<"ORA", "IMM", 2, 2>>  \* 0x09
      [] opcode =   5 -> <<"ORA", "ZPG", 2, 3>>  \* 0x05
      [] opcode =  21 -> <<"ORA", "ZPX", 2, 4>>  \* 0x15
      [] opcode =  13 -> <<"ORA", "ABS", 3, 4>>  \* 0x0d
      [] opcode =  29 -> <<"ORA", "ABX", 3, 4>>  \* 0x1d
      [] opcode =  25 -> <<"ORA", "ABY", 3, 4>>  \* 0x19
      [] opcode =   1 -> <<"ORA", "IDX", 2, 6>>  \* 0x01
      [] opcode =  17 -> <<"ORA", "IDY", 2, 5>>  \* 0x11
      [] opcode =  42 -> <<"ROL", "ACC", 1, 2>>  \* 0x2a
      [] opcode =  38 -> <<"ROL", "ACC", 2, 5>>  \* 0x26
      [] opcode =  54 -> <<"ROL", "ACC", 2, 6>>  \* 0x36
      [] opcode =  46 -> <<"ROL", "ACC", 3, 6>>  \* 0x2e
      [] opcode =  62 -> <<"ROL", "ACC", 3, 7>>  \* 0x3e
      [] opcode = 106 -> <<"ROR", "ACC", 1, 2>>  \* 0x6a
      [] opcode = 102 -> <<"ROR", "ACC", 2, 5>>  \* 0x66
      [] opcode = 118 -> <<"ROR", "ACC", 2, 6>>  \* 0x76
      [] opcode = 110 -> <<"ROR", "ACC", 3, 6>>  \* 0x6e
      [] opcode = 126 -> <<"ROR", "ACC", 3, 7>>  \* 0x7e
      [] opcode =  16 -> <<"BPL", "REL", 2, 2>>  \* 0x10
      [] opcode =  48 -> <<"BMI", "REL", 2, 2>>  \* 0x30
      [] opcode =  80 -> <<"BVC", "REL", 2, 2>>  \* 0x50
      [] opcode = 112 -> <<"BVS", "REL", 2, 2>>  \* 0x70
      [] opcode = 144 -> <<"BCC", "REL", 2, 2>>  \* 0x90
      [] opcode = 176 -> <<"BCS", "REL", 2, 2>>  \* 0xb0
      [] opcode = 208 -> <<"BNE", "REL", 2, 2>>  \* 0xd0
      [] opcode = 240 -> <<"BEQ", "REL", 2, 2>>  \* 0xf0
      [] opcode =  76 -> <<"JMP", "ABS", 3, 3>>  \* 0x4c
      [] opcode = 108 -> <<"JMP", "IND", 3, 5>>  \* 0x6c
      [] opcode =  32 -> <<"JSR", "ABS", 3, 6>>  \* 0x20
      [] opcode =  64 -> <<"RTI", "IMP", 1, 6>>  \* 0x40
      [] opcode =  96 -> <<"RTS", "IMP", 1, 6>>  \* 0x60
      [] opcode =  24 -> <<"CLC", "IMP", 1, 2>>  \* 0x18
      [] opcode =  56 -> <<"SEC", "IMP", 1, 2>>  \* 0x38
      [] opcode =  88 -> <<"CLI", "IMP", 1, 2>>  \* 0x58
      [] opcode = 120 -> <<"SEI", "IMP", 1, 2>>  \* 0x78
      [] opcode = 184 -> <<"CLV", "IMP", 1, 2>>  \* 0xb8
      [] opcode = 216 -> <<"CLD", "IMP", 1, 2>>  \* 0xd8
      [] opcode = 248 -> <<"SED", "IMP", 1, 2>>  \* 0xf8
      [] opcode = 201 -> <<"CMP", "IMM", 2, 2>>  \* 0xc9
      [] opcode = 197 -> <<"CMP", "ZPG", 2, 3>>  \* 0xc5
      [] opcode = 213 -> <<"CMP", "ZPX", 2, 4>>  \* 0xd5
      [] opcode = 205 -> <<"CMP", "ABS", 3, 4>>  \* 0xcd
      [] opcode = 221 -> <<"CMP", "ABX", 3, 4>>  \* 0xdd
      [] opcode = 217 -> <<"CMP", "ABY", 3, 4>>  \* 0xd9
      [] opcode = 193 -> <<"CMP", "IDX", 2, 6>>  \* 0xc1
      [] opcode = 209 -> <<"CMP", "IDY", 2, 5>>  \* 0xd1
      [] opcode = 224 -> <<"CPX", "IMM", 2, 2>>  \* 0xe0
      [] opcode = 228 -> <<"CPX", "ZPG", 2, 3>>  \* 0xe4
      [] opcode = 236 -> <<"CPX", "ABS", 3, 4>>  \* 0xec
      [] opcode = 192 -> <<"CPY", "IMM", 2, 2>>  \* 0xc0
      [] opcode = 196 -> <<"CPY", "ZPG", 2, 3>>  \* 0xc4
      [] opcode = 204 -> <<"CPY", "ABS", 3, 4>>  \* 0xcc
      [] opcode =  72 -> <<"PHA", "IMP", 1, 3>>  \* 0x48
      [] opcode =   8 -> <<"PHP", "IMP", 1, 3>>  \* 0x08
      [] opcode = 104 -> <<"PLA", "IMP", 1, 4>>  \* 0x68
      [] opcode =  40 -> <<"PLP", "IMP", 1, 4>>  \* 0x28
      [] opcode =   0 -> <<"BRK", "IMP", 1, 7>>  \* 0x00
      [] opcode = 234 -> <<"NOP", "IMP", 1, 2>>  \* 0xea
      [] OTHER -> <<"UNKNOWN", "UNKNOWN", 1, 1>>

\* decode with the catch-all arm of an earlier snapshot: panic!("Whoops").
decode_whoops(opcode) ==
    LET t == OpcodeMatch(opcode)
    IN  IF t[1] = "UNKNOWN" THEN Panicked("Whoops", opcode)
        ELSE Instruction_new(opcode, t[1], t[2], t[3], t[4])

\* decode with the JMP (indirect) arm left out.
decode_no_indirect(opcode) ==
    LET t == IF opcode = 108 THEN <<"UNKNOWN", "UNKNOWN", 1, 1>> ELSE OpcodeMatch(opcode)
    IN  Instruction_new(opcode, t[1], t[2], t[3], t[4])

\* pub fn decode(opcode: OpCode) -> Instruction
decode(opcode) ==
    LET t == OpcodeMatch(opcode)
    IN  Instruction_new(opcode, t[1], t[2], t[3], t[4])

\* ------------------------------------------------- the published reference
\* The published 6502 reference table the decoder is compared against:
\* opcode -> (mnemonic, mode, length, base cycles) for the 151 documented
\* opcodes (6502.org opcode tutorial, the reference decode cites).
Reference(opcode) ==
    CASE opcode =   0 -> <<"BRK", "IMP", 1, 7>>  \* 0x00
      [] opcode =   1 -> <<"ORA", "IDX", 2, 6>>  \* 0x01
      [] opcode =   5 -> <<"ORA", "ZPG", 2, 3>>  \* 0x05
      [] opcode =   6 -> <<"ASL", "ZPG", 2, 5>>  \* 0x06
      [] opcode =   8 -> <<"PHP", "IMP", 1, 3>>  \* 0x08
      [] opcode =   9 -> <<"ORA", "IMM", 2, 2>>  \* 0x09
      [] opcode =  10 -> <<"ASL", "ACC", 1, 2>>  \* 0x0a
      [] opcode =  13 -> <<"ORA", "ABS", 3, 4>>  \* 0x0d
      [] opcode =  14 -> <<"ASL", "ABS", 3, 6>>  \* 0x0e
      [] opcode =  16 -> <<"BPL", "REL", 2, 2>>  \* 0x10
      [] opcode =  17 -> <<"ORA", "IDY", 2, 5>>  \* 0x11
      [] opcode =  21 -> <<"ORA", "ZPX", 2, 4>>  \* 0x15
      [] opcode =  22 -> <<"ASL", "ZPX", 2, 6>>  \* 0x16
      [] opcode =  24 -> <<"CLC", "IMP", 1, 2>>  \* 0x18
      [] opcode =  25 -> <<"ORA", "ABY", 3, 4>>  \* 0x19
      [] opcode =  29 -> <<"ORA", "ABX", 3, 4>>  \* 0x1d
      [] opcode =  30 -> <<"ASL", "ABX", 3, 7>>  \* 0x1e
      [] opcode =  32 -> <<"JSR", "ABS", 3, 6>>  \* 0x20
      [] opcode =  33 -> <<"AND", "IDX", 2, 6>>  \* 0x21
      [] opcode =  36 -> <<"BIT", "ZPG", 2, 3>>  \* 0x24
      [] opcode =  37 -> <<"AND", "ZPG", 2, 3>>  \* 0x25
      [] opcode =  38 -> <<"ROL", "ZPG", 2, 5>>  \* 0x26
      [] opcode =  40 -> <<"PLP", "IMP", 1, 4>>  \* 0x28
      [] opcode =  41 -> <<"AND", "IMM", 2, 2>>  \* 0x29
      [] opcode =  42 -> <<"ROL", "ACC", 1, 2>>  \* 0x2a
      [] opcode =  44 -> <<"BIT", "ABS", 3, 4>>  \* 0x2c
      [] opcode =  45 -> <<"AND", "ABS", 3, 4>>  \* 0x2d
      [] opcode =  46 -> <<"ROL", "ABS", 3, 6>>  \* 0x2e
      [] opcode =  48 -> <<"BMI", "REL", 2, 2>>  \* 0x30
      [] opcode =  49 -> <<"AND", "IDY", 2, 5>>  \* 0x31
      [] opcode =  53 -> <<"AND", "ZPX", 2, 4>>  \* 0x35
      [] opcode =  54 -> <<"ROL", "ZPX", 2, 6>>  \* 0x36
      [] opcode =  56 -> <<"SEC", "IMP", 1, 2>>  \* 0x38
      [] opcode =  57 -> <<"AND", "ABY", 3, 4>>  \* 0x39
      [] opcode =  61 -> <<"AND", "ABX", 3, 4>>  \* 0x3d
      [] opcode =  62 -> <<"ROL", "ABX", 3, 7>>  \* 0x3e
      [] opcode =  64 -> <<"RTI", "IMP", 1, 6>>  \* 0x40
      [] opcode =  65 -> <<"EOR", "IDX", 2, 6>>  \* 0x41
      [] opcode =  69 -> <<"EOR", "ZPG", 2, 3>>  \* 0x45
      [] opcode =  70 -> <<"LSR", "ZPG", 2, 5>>  \* 0x46
      [] opcode =  72 -> <<"PHA", "IMP", 1, 3>>  \* 0x48
      [] opcode =  73 -> <<"EOR", "IMM", 2, 2>>  \* 0x49
      [] opcode =  74 -> <<"LSR", "ACC", 1, 2>>  \* 0x4a
      [] opcode =  76 -> <<"JMP", "ABS", 3, 3>>  \* 0x4c
      [] opcode =  77 -> <<"EOR", "ABS", 3, 4>>  \* 0x4d
      [] opcode =  78 -> <<"LSR", "ABS", 3, 6>>  \* 0x4e
      [] opcode =  80 -> <<"BVC", "REL", 2, 2>>  \* 0x50
      [] opcode =  81 -> <<"EOR", "IDY", 2, 5>>  \* 0x51
      [] opcode =  85 -> <<"EOR", "ZPX", 2, 4>>  \* 0x55
      [] opcode =  86 -> <<"LSR", "ZPX", 2, 6>>  \* 0x56
      [] opcode =  88 -> <<"CLI", "IMP", 1, 2>>  \* 0x58
      [] opcode =  89 -> <<"EOR", "ABY", 3, 4>>  \* 0x59
      [] opcode =  93 -> <<"EOR", "ABX", 3, 4>>  \* 0x5d
      [] opcode =  94 -> <<"LSR", "ABX", 3, 7>>  \* 0x5e
      [] opcode =  96 -> <<"RTS", "IMP", 1, 6>>  \* 0x60
      [] opcode =  97 -> <<"ADC", "IDX", 2, 6>>  \* 0x61
      [] opcode = 101 -> <<"ADC", "ZPG", 2, 3>>  \* 0x65
      [] opcode = 102 -> <<"ROR", "ZPG", 2, 5>>  \* 0x66
      [] opcode = 104 -> <<"PLA", "IMP", 1, 4>>  \* 0x68
      [] opcode = 105 -> <<"ADC", "IMM", 2, 2>>  \* 0x69
      [] opcode = 106 -> <<"ROR", "ACC", 1, 2>>  \* 0x6a
      [] opcode = 108 -> <<"JMP", "IND", 3, 5>>  \* 0x6c
      [] opcode = 109 -> <<"ADC", "ABS", 3, 4>>  \* 0x6d
      [] opcode = 110 -> <<"ROR", "ABS", 3, 6>>  \* 0x6e
      [] opcode = 112 -> <<"BVS", "REL", 2, 2>>  \* 0x70
      [] opcode = 113 -> <<"ADC", "IDY", 2, 5>>  \* 0x71
      [] opcode = 117 -> <<"ADC", "ZPX", 2, 4>>  \* 0x75
      [] opcode = 118 -> <<"ROR", "ZPX", 2, 6>>  \* 0x76
      [] opcode = 120 -> <<"SEI", "IMP", 1, 2>>  \* 0x78
      [] opcode = 121 -> <<"ADC", "ABY", 3, 4>>  \* 0x79
      [] opcode = 125 -> <<"ADC", "ABX", 3, 4>>  \* 0x7d
      [] opcode = 126 -> <<"ROR", "ABX", 3, 7>>  \* 0x7e
      [] opcode = 129 -> <<"STA", "IDX", 2, 6>>  \* 0x81
      [] opcode = 132 -> <<"STY", "ZPG", 2, 3>>  \* 0x84
      [] opcode = 133 -> <<"STA", "ZPG", 2, 3>>  \* 0x85
      [] opcode = 134 -> <<"STX", "ZPG", 2, 3>>  \* 0x86
      [] opcode = 136 -> <<"DEY", "IMP", 1, 2>>  \* 0x88
      [] opcode = 138 -> <<"TXA", "IMP", 1, 2>>  \* 0x8a
      [] opcode = 140 -> <<"STY", "ABS", 3, 4>>  \* 0x8c
      [] opcode = 141 -> <<"STA", "ABS", 3, 4>>  \* 0x8d
      [] opcode = 142 -> <<"STX", "ABS", 3, 4>>  \* 0x8e
      [] opcode = 144 -> <<"BCC", "REL", 2, 2>>  \* 0x90
      [] opcode = 145 -> <<"STA", "IDY", 2, 6>>  \* 0x91
      [] opcode = 148 -> <<"STY", "ZPX", 2, 4>>  \* 0x94
      [] opcode = 149 -> <<"STA", "ZPX", 2, 4>>  \* 0x95
      [] opcode = 150 -> <<"STX", "ZPY", 2, 4>>  \* 0x96
      [] opcode = 152 -> <<"TYA", "IMP", 1, 2>>  \* 0x98
      [] opcode = 153 -> <<"STA", "ABY", 3, 5>>  \* 0x99
      [] opcode = 154 -> <<"TXS", "IMP", 1, 2>>  \* 0x9a
      [] opcode = 157 -> <<"STA", "ABX", 3, 5>>  \* 0x9d
      [] opcode = 160 -> <<"LDY", "IMM", 2, 2>>  \* 0xa0
      [] opcode = 161 -> <<"LDA", "IDX", 2, 6>>  \* 0xa1
      [] opcode = 162 -> <<"LDX", "IMM", 2, 2>>  \* 0xa2
      [] opcode = 164 -> <<"LDY", "ZPG", 2, 3>>  \* 0xa4
      [] opcode = 165 -> <<"LDA", "ZPG", 2, 3>>  \* 0xa5
      [] opcode = 166 -> <<"LDX", "ZPG", 2, 3>>  \* 0xa6
      [] opcode = 168 -> <<"TAY", "IMP", 1, 2>>  \* 0xa8
      [] opcode = 169 -> <<"LDA", "IMM", 2, 2>>  \* 0xa9
      [] opcode = 170 -> <<"TAX", "IMP", 1, 2>>  \* 0xaa
      [] opcode = 172 -> <<"LDY", "ABS", 3, 4>>  \* 0xac
      [] opcode = 173 -> <<"LDA", "ABS", 3, 4>>  \* 0xad
      [] opcode = 174 -> <<"LDX", "ABS", 3, 4>>  \* 0xae
      [] opcode = 176 -> <<"BCS", "REL", 2, 2>>  \* 0xb0
      [] opcode = 177 -> <<"LDA", "IDY", 2, 5>>  \* 0xb1
      [] opcode = 180 -> <<"LDY", "ZPX", 2, 4>>  \* 0xb4
      [] opcode = 181 -> <<"LDA", "ZPX", 2, 4>>  \* 0xb5
      [] opcode = 182 -> <<"LDX", "ZPY", 2, 4>>  \* 0xb6
      [] opcode = 184 -> <<"CLV", "IMP", 1, 2>>  \* 0xb8
      [] opcode = 185 -> <<"LDA", "ABY", 3, 4>>  \* 0xb9
      [] opcode = 186 -> <<"TSX", "IMP", 1, 2>>  \* 0xba
      [] opcode = 188 -> <<"LDY", "ABX", 3, 4>>  \* 0xbc
      [] opcode = 189 -> <<"LDA", "ABX", 3, 4>>  \* 0xbd
      [] opcode = 190 -> <<"LDX", "ABY", 3, 4>>  \* 0xbe
      [] opcode = 192 -> <<"CPY", "IMM", 2, 2>>  \* 0xc0
      [] opcode = 193 -> <<"CMP", "IDX", 2, 6>>  \* 0xc1
      [] opcode = 196 -> <<"CPY", "ZPG", 2, 3>>  \* 0xc4
      [] opcode = 197 -> <<"CMP", "ZPG", 2, 3>>  \* 0xc5
      [] opcode = 198 -> <<"DEC", "ZPG", 2, 5>>  \* 0xc6
      [] opcode = 200 -> <<"INY", "IMP", 1, 2>>  \* 0xc8
      [] opcode = 201 -> <<"CMP", "IMM", 2, 2>>  \* 0xc9
      [] opcode = 202 -> <<"DEX", "IMP", 1, 2>>  \* 0xca
      [] opcode = 204 -> <<"CPY", "ABS", 3, 4>>  \* 0xcc
      [] opcode = 205 -> <<"CMP", "ABS", 3, 4>>  \* 0xcd
      [] opcode = 206 -> <<"DEC", "ABS", 3, 6>>  \* 0xce
      [] opcode = 208 -> <<"BNE", "REL", 2, 2>>  \* 0xd0
      [] opcode = 209 -> <<"CMP", "IDY", 2, 5>>  \* 0xd1
      [] opcode = 213 -> <<"CMP", "ZPX", 2, 4>>  \* 0xd5
      [] opcode = 214 -> <<"DEC", "ZPX", 2, 6>>  \* 0xd6
      [] opcode = 216 -> <<"CLD", "IMP", 1, 2>>  \* 0xd8
      [] opcode = 217 -> <<"CMP", "ABY", 3, 4>>  \* 0xd9
      [] opcode = 221 -> <<"CMP", "ABX", 3, 4>>  \* 0xdd
      [] opcode = 222 -> <<"DEC", "ABX", 3, 7>>  \* 0xde
      [] opcode = 224 -> <<"CPX", "IMM", 2, 2>>  \* 0xe0
      [] opcode = 225 -> <<"SBC", "IDX", 2, 6>>  \* 0xe1
      [] opcode = 228 -> <<"CPX", "ZPG", 2, 3>>  \* 0xe4
      [] opcode = 229 -> <<"SBC", "ZPG", 2, 3>>  \* 0xe5
      [] opcode = 230 -> <<"INC", "ZPG", 2, 5>>  \* 0xe6
      [] opcode = 232 -> <<"INX", "IMP", 1, 2>>  \* 0xe8
      [] opcode = 233 -> <<"SBC", "IMM", 2, 2>>  \* 0xe9
      [] opcode = 234 -> <<"NOP", "IMP", 1, 2>>  \* 0xea
      [] opcode = 236 -> <<"CPX", "ABS", 3, 4>>  \* 0xec
      [] opcode = 237 -> <<"SBC", "ABS", 3, 4>>  \* 0xed
      [] opcode = 238 -> <<"INC", "ABS", 3, 6>>  \* 0xee
      [] opcode = 240 -> <<"BEQ", "REL", 2, 2>>  \* 0xf0
      [] opcode = 241 -> <<"SBC", "IDY", 2, 5>>  \* 0xf1
      [] opcode = 245 -> <<"SBC", "ZPX", 2, 4>>  \* 0xf5
      [] opcode = 246 -> <<"INC", "ZPX", 2, 6>>  \* 0xf6
      [] opcode = 248 -> <<"SED", "IMP", 1, 2>>  \* 0xf8
      [] opcode = 249 -> <<"SBC", "ABY", 3, 4>>  \* 0xf9
      [] opcode = 253 -> <<"SBC", "ABX", 3, 4>>  \* 0xfd
      [] opcode = 254 -> <<"INC", "ABX", 3, 7>>  \* 0xfe
      [] OTHER -> <<"ILLEGAL", "NONE", 0, 0>>

LegalOpcodes == {b \in Byte : Reference(b)[1] # "ILLEGAL"}

\* Operand bytes an addressing mode consumes.
OperandBytes(mode) ==
    CASE mode \in {"IMP", "ACC", "UNKNOWN"} -> 0
      [] mode \in {"IMM", "ZPG", "ZPX", "ZPY", "REL", "IDX", "IDY"} -> 1
      [] mode \in {"ABS", "ABX", "ABY", "IND"} -> 2

\* Mnemonics that transfer control.
ControlTransfer ==
    {"JMP", "JSR", "RTI", "RTS", "BRK", "BCC", "BCS", "BEQ", "BMI", "BNE", "BPL", "BVC", "BVS"}

\* ----------------------------------------------------------------- state
VARIABLES
    table,      \* decode's results for the opcode bytes 0, 1, 2, ... decoded so far
    memory,     \* Cpu.memory: the cells that differ from the 0 they are created with
    a, x, y,    \* Cpu.registers.a / x / y
    pc,         \* Cpu.registers.pc
    s, p,       \* Cpu.registers.s / p
    status,     \* Cpu.status.bits
    program,    \* Cpu.program
    stdout,     \* the lines step has printed: the instruction and its operands
    panic,      \* NoPanic, or the panic that ended the process
    call,       \* the last Cpu operation called and the Cpu it was called on
    buf,        \* the file contents handed to load
    loaded,     \* what load returned: NotLoaded, Ok(rom) or Err(reason)
    rom,        \* the ROM handed to disassemble
    dis_pc,     \* disassemble's local pc: the offset into prg_rom
    pipodekloon,\* the InstructionDeNovo disassemble printed last
    returned    \* whether disassemble has returned

registers == <<a, x, y, pc, s, p>>
cpu == <<memory, a, x, y, pc, s, p, status, program, stdout, panic, call>>
rom_side == <<buf, loaded, rom, dis_pc, pipodekloon, returned>>
vars == <<table, memory, a, x, y, pc, s, p, status, program, stdout, panic, call,
          buf, loaded, rom, dis_pc, pipodekloon, returned>>

\* The fields of the Cpu struct as they are now.
CpuState ==
    [memory |-> memory, a |-> a, x |-> x, y |-> y, pc |-> pc, s |-> s, p |-> p,
     status |-> status, program |-> program]

\* The record of a call of the Cpu operation op on the Cpu as it is now.
Called(op) == [op |-> op, pre |-> CpuState]

Min(m, n) == IF m < n THEN m ELSE n

\* The program images the model loads: every byte string over ProgBytes of
\* length 0..MaxProgLen.
Programs == UNION {[1..n -> ProgBytes] : n \in 0..MaxProgLen}

\* Cpu::new with the caller's program image assigned to the pub field.
Cpu_new(image) ==
    /\ memory = <<>>          \* [0; 2048]: no cell differs from 0
    /\ a = 0 /\ x = 0 /\ y = 0 /\ pc = 0 /\ s = 0 /\ p = 0
    /\ status = 0
    /\ program = image
    /\ stdout = <<>>
    /\ panic = NoPanic
    /\ call = Called("new")

\* ------------------------------------------------------ decoder operation
\* One call of decode on the next opcode byte, its result recorded.
Decode ==
    /\ Len(table) < ByteRange
    /\ table' = Append(table, decode(Len(table)))
    /\ UNCHANGED <<cpu, rom_side>>

\* --------------------------------------------------------- CPU operations
\* step whose PC stays put on an opcode it does not know.
step_stuck ==
    /\ panic = NoPanic
    /\ IF pc >= Len(program)
       THEN /\ panic' = Panicked("index out of bounds", pc)
            /\ UNCHANGED <<memory, a, x, y, pc, s, p, status, program, stdout>>
       ELSE LET instruction == decode(program[pc + 1])
                operands == SubSeq(program, pc + 1,
                                   Min(pc + instruction.length, Len(program)))
            IN  /\ stdout' = Append(stdout, [instruction |-> instruction,
                                             operands |-> operands])
                /\ pc' = IF instruction.mnemonic = "UNKNOWN" THEN pc
                         ELSE (pc + instruction.length) % AddressRange
                /\ UNCHANGED <<memory, a, x, y, s, p, status, program, panic>>
    /\ call' = Called("step")
    /\ UNCHANGED <<table, rom_side>>

\* step that also carries out a load-immediate: LDA #v puts v in A.
step_executes ==
    /\ panic = NoPanic
    /\ IF pc >= Len(program)
       THEN /\ panic' = Panicked("index out of bounds", pc)
            /\ UNCHANGED <<memory, a, x, y, pc, s, p, status, program, stdout>>
       ELSE LET instruction == decode(program[pc + 1])
                operands == SubSeq(program, pc + 1,
                                   Min(pc + instruction.length, Len(program)))
            IN  /\ stdout' = Append(stdout, [instruction |-> instruction,
                                             operands |-> operands])
                /\ pc' = (pc + instruction.length) % AddressRange
                /\ a' = IF instruction.mnemonic = "LDA" /\ Len(operands) = 2
                        THEN operands[2] ELSE a
                /\ UNCHANGED <<memory, x, y, s, p, status, program, panic>>
    /\ call' = Called("step")
    /\ UNCHANGED <<table, rom_side>>

\* Cpu::step (cpu/mod.rs)
step ==
    /\ panic = NoPanic
    /\ IF pc >= Len(program)
       THEN \* self.program[pc as usize] indexes past the end of the Vec
            /\ panic' = Panicked("index out of bounds", pc)
            /\ UNCHANGED <<memory, a, x, y, pc, s, p, status, program, stdout>>
       ELSE LET instruction == decode(program[pc + 1])
                \* program.iter().skip(pc).take(length)
                operands == SubSeq(program, pc + 1,
                                   Min(pc + instruction.length, Len(program)))
            IN  /\ stdout' = Append(stdout, [instruction |-> instruction,
                                             operands |-> operands])
                /\ pc' = (pc + instruction.length) % AddressRange
                /\ UNCHANGED <<memory, a, x, y, s, p, status, program, panic>>
    /\ call' = Called("step")
    /\ UNCHANGED <<table, rom_side>>

\* A write through an immediate operand that stores the value at PC instead
\* of refusing.
ImmediateAddressing_write_stores(value) ==
    /\ panic = NoPanic
    /\ pc < WorkingMemorySize
    /\ memory' = [i \in DOMAIN memory \cup {pc} |-> IF i = pc THEN value ELSE memory[i]]
    /\ call' = Called("ImmediateAddressing_write")
    /\ UNCHANGED <<table, a, x, y, pc, s, p, status, program, stdout, panic, rom_side>>

\* impl Addressing for ImmediateAddressing: fn write (CPU/mod.rs)
ImmediateAddressing_write(value) ==
    /\ panic = NoPanic
    /\ panic' = Panicked("Tried to write to an immediate address.", value)
    /\ call' = Called("ImmediateAddressing_write")
    /\ UNCHANGED <<table, memory, a, x, y, pc, s, p, status, program, stdout, rom_side>>

\* self.memory[i] for an index inside the array
MemoryAt(mem, i) == IF i \in DOMAIN mem THEN mem[i] ELSE 0

\* The record of a call that returned a value.
Returned(op, value) == [op |-> op, pre |-> CpuState, value |-> value]

\* Cpu::read_one (CPU/mod.rs) with the PC at `at`: the PC it leaves, whether
\* the index at is inside working memory, and the byte it returns if so.
read_one(mem, at) ==
    [pc |-> (at + 1) % AddressRange,
     inside |-> at < WorkingMemorySize,
     value |-> MemoryAt(mem, at)]

\* Cpu::read_one_indexed (CPU/mod.rs): as read_one, the byte widened to u16.
read_one_indexed(mem, at) ==
    [pc |-> (at + 1) % AddressRange,
     inside |-> at < WorkingMemorySize,
     value |-> MemoryAt(mem, at)]

\* impl Addressing for ImmediateAddressing: fn read (CPU/mod.rs)
ImmediateAddressing_read ==
    /\ panic = NoPanic
    /\ LET fetched == read_one(memory, pc)
       IN  /\ pc' = fetched.pc
           /\ IF fetched.inside
              THEN /\ call' = Returned("ImmediateAddressing_read", fetched.value)
                   /\ UNCHANGED panic
              ELSE /\ panic' = Panicked("index out of bounds", pc)
                   /\ call' = Called("ImmediateAddressing_read")
    /\ UNCHANGED <<table, memory, a, x, y, s, p, status, program, stdout, rom_side>>

\* impl Addressing for ZeroPageAddressing: fn read (CPU/mod.rs)
ZeroPageAddressing_read ==
    /\ panic = NoPanic
    /\ LET address == read_one_indexed(memory, pc)
       IN  /\ pc' = address.pc
           /\ IF ~address.inside
              THEN /\ panic' = Panicked("index out of bounds", pc)
                   /\ call' = Called("ZeroPageAddressing_read")
              ELSE IF address.value >= WorkingMemorySize
              THEN /\ panic' = Panicked("index out of bounds", address.value)
                   /\ call' = Called("ZeroPageAddressing_read")
              ELSE /\ call' = Returned("ZeroPageAddressing_read",
                                       MemoryAt(memory, address.value))
                   /\ UNCHANGED panic
    /\ UNCHANGED <<table, memory, a, x, y, s, p, status, program, stdout, rom_side>>

\* Cpu::step of the CPU/mod.rs snapshot: the operands are fetched by a match
\* on the decoded length.
CPU_step ==
    /\ panic = NoPanic
    /\ call' = Called("CPU_step")
    /\ UNCHANGED <<table, rom_side>>
    /\ IF pc >= Len(program)
       THEN \* self.program[pc as usize]
            /\ panic' = Panicked("index out of bounds", pc)
            /\ UNCHANGED <<memory, a, x, y, pc, s, p, status, program, stdout>>
       ELSE LET instruction == decode(program[pc + 1])
                \* pc.wrapping_add(1) as usize, pc.wrapping_add(2) as usize
                index == [k \in 1..2 |-> (pc + k) % AddressRange]
                wanted == instruction.length - 1
            IN  IF instruction.length \notin {1, 2, 3}
                THEN /\ panic' = Panicked("Illegal OpCode definition", 0)
                     /\ UNCHANGED <<memory, a, x, y, pc, s, p, status, program, stdout>>
                ELSE IF \E k \in 1..wanted : index[k] >= Len(program)
                THEN /\ panic' = Panicked("index out of bounds",
                                          index[CHOOSE k \in 1..wanted :
                                                  /\ index[k] >= Len(program)
                                                  /\ \A j \in 1..(k - 1) :
                                                        index[j] < Len(program)])
                     /\ UNCHANGED <<memory, a, x, y, pc, s, p, status, program, stdout>>
                ELSE /\ stdout' = Append(stdout,
                            [instruction |-> instruction,
                             operands |-> [k \in 1..wanted |-> program[index[k] + 1]]])
                     /\ pc' = (pc + instruction.length) % AddressRange
                     /\ UNCHANGED <<memory, a, x, y, s, p, status, program, panic>>

\* The power-up value of the status flags: 0xfd.
PowerUpStatus == 253

\* power_on that puts the power-up value in the P register field instead of
\* the status flags.
power_on_p ==
    /\ panic = NoPanic
    /\ p' = PowerUpStatus
    /\ call' = Called("power_on")
    /\ UNCHANGED <<table, memory, a, x, y, pc, s, status, program, stdout, panic, rom_side>>

\* Cpu::power_on
power_on ==
    /\ panic = NoPanic
    /\ status' = PowerUpStatus
    /\ call' = Called("power_on")
    /\ UNCHANGED <<table, memory, a, x, y, pc, s, p, program, stdout, panic, rom_side>>

\* Cpu::reset: its body is empty.
reset ==
    /\ panic = NoPanic
    /\ call' = Called("reset")
    /\ UNCHANGED <<table, memory, a, x, y, pc, s, p, status, program, stdout, panic, rom_side>>

\* ------------------------------------------------------------ ROM loader
\* pub const TRAINER_LENGTH / PRG_ROM_PAGE_LENGTH / CHR_ROM_PAGE_LENGTH
TRAINER_LENGTH == 512
PRG_ROM_PAGE_LENGTH == 16384
CHR_ROM_PAGE_LENGTH == 8192

\* A byte buffer (Vec<u8>, &[u8]) of `size` bytes. Its first Len(header)
\* bytes are written out; the byte at any later index i is
\* pattern[i mod Len(pattern)], so that buffers of whole ROM pages stay small.
NoBuffer == [size |-> 0, header |-> <<>>, pattern |-> <<0>>]
NotLoaded == [kind |-> "NotLoaded"]
NoRom == [kind |-> "NoRom"]
NoLine == [kind |-> "NoLine"]

\* b[i], for 0 <= i < b.size
BufAt(b, i) ==
    IF i < Len(b.header) THEN b.header[i + 1]
    ELSE b.pattern[(i % Len(b.pattern)) + 1]

\* The Vec<u8> copied from the len bytes of b that start at index start.
Slice(b, start, len) == [of |-> b, start |-> start, len |-> len]

\* v[i], for 0 <= i < v.len
VecAt(v, i) == BufAt(v.of, v.start + i)

\* u8 & u8 and u8 | u8
RECURSIVE BitAnd(_, _)
BitAnd(m, n) ==
    IF m = 0 \/ n = 0 THEN 0
    ELSE (m % 2) * (n % 2) + 2 * BitAnd(m \div 2, n \div 2)

RECURSIVE BitOr(_, _)
BitOr(m, n) ==
    IF m = 0 THEN n
    ELSE IF n = 0 THEN m
    ELSE (IF (m % 2) + (n % 2) > 0 THEN 1 ELSE 0) + 2 * BitOr(m \div 2, n \div 2)

\* bitflags Flags6, Flags7, Flags9: the union of the declared flags.
Flags6_all == 255
Flags7_all == 15
Flags9_all == 1

\* The declared flags used by name.
Flags6_VERTICAL == 1
Flags6_TRAINER == 4
Flags6_FOUR_SCREEN == 8
Flags7_VS_UNISYSTEM == 1
Flags7_PLAYCHOICE_10 == 2
Flags9_TV_SYSTEM == 1

\* bitflags from_bits: None when a bit outside the declared flags is set.
from_bits(bits, all) == BitAnd(bits, (ByteRange - 1) - all) = 0

\* bitflags contains
contains(bits, flag) == BitAnd(bits, flag) = flag

\* impl Into<ScreenMode> for Flags6
Flags6_into(flg6) ==
    IF contains(flg6, Flags6_FOUR_SCREEN) THEN "FourScreen"
    ELSE IF contains(flg6, Flags6_VERTICAL) THEN "Vertical"
    ELSE "Horizontal"

\* impl Into<System> for Flags7
Flags7_into(flg7) ==
    IF contains(flg7, Flags7_VS_UNISYSTEM) THEN "VsUnisystem"
    ELSE IF contains(flg7, Flags7_PLAYCHOICE_10) THEN "PlayChoice10"
    ELSE "NES"

\* impl Into<Region> for Flags9
Flags9_into(flg9) ==
    IF contains(flg9, Flags9_TV_SYSTEM) THEN "PAL" ELSE "NTSC"

\* The results of a call that can panic, and of a nom parser.
Panic(msg) == [kind |-> "Panic", panic |-> Panicked(msg, 0)]
Done(rest, val) == [kind |-> "Done", rest |-> rest, val |-> val]
Incomplete == [kind |-> "Incomplete"]
Error == [kind |-> "Error"]

\* Header::new: the three expect calls panic on bits no flag declares.
Header_new(prg_size, chr_size, flags6, flags7, prg_ram, flags9, flags10) ==
    IF \/ ~from_bits(flags6, Flags6_all)
       \/ ~from_bits(flags7, Flags7_all)
       \/ ~from_bits(flags9, Flags9_all)
    THEN Panic("Failed to parse bit-flags from ROM")
    ELSE [kind |-> "Header",
          prg_size |-> prg_size,
          chr_size |-> chr_size,
          trainer |-> contains(flags6, Flags6_TRAINER),
          screen_mode |-> Flags6_into(flags6),
          system |-> Flags7_into(flags7),
          region |-> Flags9_into(flags9),
          \* (flags7 << 4) | flags6 on u8
          mapper |-> BitOr((flags7 * 16) % ByteRange, flags6)]

\* ROM::new
ROM_new(header, prg_rom, chr_rom) ==
    [header |-> header, prg_rom |-> prg_rom, chr_rom |-> chr_rom]

\* nom tag!: compares as many bytes as the input has.
tag(b, pos, bytes) ==
    LET m == Min(b.size - pos, Len(bytes))
    IN  IF \E i \in 0..(m - 1) : BufAt(b, pos + i) # bytes[i + 1] THEN Error
        ELSE IF m < Len(bytes) THEN Incomplete
        ELSE Done(pos + Len(bytes), bytes)

\* nom be_u8
be_u8(b, pos) ==
    IF b.size - pos < 1 THEN Incomplete ELSE Done(pos + 1, BufAt(b, pos))

\* nom take!
take(b, pos, count) ==
    IF b.size - pos < count THEN Incomplete
    ELSE Done(pos + count, Slice(b, pos, count))

\* The parsers chained by do_parse!: tag!, be_u8, take!, and cond!, which
\* runs its parser only when its condition holds.
TagParser(bytes) == [parser |-> "tag", bytes |-> bytes]
U8Parser == [parser |-> "be_u8"]
TakeParser(count) == [parser |-> "take", count |-> count]
CondParser(condition, parser) == IF condition THEN parser ELSE [parser |-> "none"]

Apply(parser, b, pos) ==
    CASE parser.parser = "tag" -> tag(b, pos, parser.bytes)
      [] parser.parser = "be_u8" -> be_u8(b, pos)
      [] parser.parser = "take" -> take(b, pos, parser.count)
      [] OTHER -> Done(pos, <<>>)

\* nom do_parse!: the parsers run in turn, each on what the one before left;
\* the first that is not Done is the result. vals collects their values.
RECURSIVE do_parse(_, _, _, _)
Chain(b, result, parsers, vals) ==
    IF result.kind # "Done" THEN result
    ELSE do_parse(b, result.rest, parsers, Append(vals, result.val))

do_parse(b, pos, parsers, vals) ==
    IF parsers = <<>> THEN Done(pos, vals)
    ELSE Chain(b, Apply(Head(parsers), b, pos), Tail(parsers), vals)

\* The closing expression of parse_header's do_parse!: Header::new on the
\* seven bytes read after the magic.
HeaderOf(fields) ==
    IF fields.kind # "Done" THEN fields
    ELSE LET header == Header_new(fields.val[3], fields.val[4], fields.val[5],
                                  fields.val[6], fields.val[7], fields.val[8],
                                  fields.val[9])
         IN  IF header.kind = "Panic" THEN header ELSE Done(fields.rest, header)

\* named!(parse_header): the input is b from index pos on.
parse_header(b, pos) ==
    HeaderOf(do_parse(b, pos,
                      <<TagParser(<<78, 69, 83>>), TagParser(<<26>>),
                        U8Parser, U8Parser, U8Parser, U8Parser, U8Parser,
                        U8Parser, U8Parser, TakeParser(5)>>,
                      <<>>))

\* The closing expression of parse_ines's do_parse!: ROM::new on the header
\* and the PRG and CHR sections.
RomOf(header, sections) ==
    IF sections.kind # "Done" THEN sections
    ELSE Done(sections.rest, ROM_new(header, sections.val[2], sections.val[3]))

\* parse_ines, were it to take the PRG pages right after the header even
\* when a trainer is declared.
Sections_no_trainer(b, header) ==
    IF header.kind # "Done" THEN header
    ELSE RomOf(header.val,
               do_parse(b, header.rest,
                        <<CondParser(FALSE, TakeParser(TRAINER_LENGTH)),
                          TakeParser(header.val.prg_size * PRG_ROM_PAGE_LENGTH),
                          TakeParser(header.val.chr_size * CHR_ROM_PAGE_LENGTH)>>,
                        <<>>))

\* parse_ines after its header: the trainer if the header declares one, then
\* the PRG and the CHR pages.
Sections(b, header) ==
    IF header.kind # "Done" THEN header
    ELSE RomOf(header.val,
               do_parse(b, header.rest,
                        <<CondParser(header.val.trainer, TakeParser(TRAINER_LENGTH)),
                          TakeParser(header.val.prg_size * PRG_ROM_PAGE_LENGTH),
                          TakeParser(header.val.chr_size * CHR_ROM_PAGE_LENGTH)>>,
                        <<>>))

\* named!(parse_ines)
parse_ines(b) == Sections(b, parse_header(b, 0))

\* Result<ROM, &'static str>
Ok(val) == [kind |-> "Ok", val |-> val]
Err(reason) == [kind |-> "Err", reason |-> reason]

\* The match of load on the parser's result.
LoadResult(parsed) ==
    CASE parsed.kind = "Incomplete" -> Err("Failed to parse ROM file")
      [] parsed.kind = "Done" -> Ok(parsed.val)
      [] parsed.kind = "Panic" -> parsed
      [] OTHER -> Err("Failed to parse ROM file")

\* pub fn load
load(b) == LoadResult(parse_ines(b))

\* pub fn load_from_file: the file's bytes are read into buf and loaded.
load_from_file ==
    /\ panic = NoPanic
    /\ loaded = NotLoaded
    /\ LET result == load(buf)
       IN  IF result.kind = "Panic"
           THEN panic' = result.panic /\ UNCHANGED loaded
           ELSE loaded' = result /\ UNCHANGED panic
    /\ UNCHANGED <<table, memory, a, x, y, pc, s, p, status, program, stdout, call,
                   buf, rom, dis_pc, pipodekloon, returned>>

\* ----------------------------------------------------------- disassembler
\* The match expression of disassemble: opcode -> (mnemonic, mode, length,
\* cycles).
DisassemblerMatch(opcode) ==
    CASE opcode = 169 -> <<"LDA", "IMM", 2, 2>>  \* 0xa9
      [] opcode = 165 -> <<"LDA", "ZPG", 2, 3>>  \* 0xa5
      [] opcode = 181 -> <<"LDA", "ZPX", 2, 4>>  \* 0xb5
      [] opcode = 173 -> <<"LDA", "ABS", 3, 4>>  \* 0xad
      [] opcode = 189 -> <<"LDA", "ABX", 3, 4>>  \* 0xbd
      [] opcode = 185 -> <<"LDA", "ABY", 3, 4>>  \* 0xb9
      [] opcode = 161 -> <<"LDA", "IDX", 2, 6>>  \* 0xa1
      [] opcode = 177 -> <<"LDA", "IDY", 2, 5>>  \* 0xb1
      [] opcode = 162 -> <<"LDX", "IMM", 2, 2>>  \* 0xa2
      [] opcode = 166 -> <<"LDX", "ZPG", 2, 3>>  \* 0xa6
      [] opcode = 182 -> <<"LDX", "ZPY", 2, 4>>  \* 0xb6
      [] opcode = 174 -> <<"LDX", "ABS", 3, 4>>  \* 0xae
      [] opcode = 190 -> <<"LDX", "ABY", 3, 4>>  \* 0xbe
      [] opcode = 160 -> <<"LDY", "IMM", 2, 2>>  \* 0xa0
      [] opcode = 164 -> <<"LDY", "ZPG", 2, 3>>  \* 0xa4
      [] opcode = 180 -> <<"LDY", "ZPX", 2, 4>>  \* 0xb4
      [] opcode = 172 -> <<"LDY", "ABS", 3, 4>>  \* 0xac
      [] opcode = 188 -> <<"LDY", "ABX", 3, 4>>  \* 0xbc
      [] opcode = 133 -> <<"STA", "ZPG", 2, 3>>  \* 0x85
      [] opcode = 149 -> <<"STA", "ZPX", 2, 4>>  \* 0x95
      [] opcode = 141 -> <<"STA", "ABS", 3, 4>>  \* 0x8d
      [] opcode = 157 -> <<"STA", "ABX", 3, 5>>  \* 0x9d
      [] opcode = 153 -> <<"STA", "ABY", 3, 5>>  \* 0x99
      [] opcode = 129 -> <<"STA", "IDX", 2, 6>>  \* 0x81
      [] opcode = 145 -> <<"STA", "IDY", 2, 6>>  \* 0x91
      [] opcode = 134 -> <<"STX", "ZPG", 2, 3>>  \* 0x86
      [] opcode = 150 -> <<"STX", "ZPY", 2, 4>>  \* 0x96
      [] opcode = 142 -> <<"STX", "ABS", 3, 4>>  \* 0x8e
      [] opcode = 132 -> <<"STY", "ZPG", 2, 3>>  \* 0x84
      [] opcode = 148 -> <<"STY", "ZPX", 2, 4>>  \* 0x94
      [] opcode = 140 -> <<"STY", "ABS", 3, 4>>  \* 0x8c
      [] opcode = 170 -> <<"TAX", "IMP", 1, 2>>  \* 0xaa
      [] opcode = 168 -> <<"TAY", "IMP", 1, 2>>  \* 0xa8
      [] opcode = 186 -> <<"TSX", "IMP", 1, 2>>  \* 0xba
      [] opcode = 138 -> <<"TXA", "IMP", 1, 2>>  \* 0x8a
      [] opcode = 154 -> <<"TXS", "IMP", 1, 2>>  \* 0x9a
      [] opcode = 152 -> <<"TYA", "IMP", 1, 2>>  \* 0x98
      [] opcode = 105 -> <<"ADC", "IMM", 2, 2>>  \* 0x69
      [] opcode = 101 -> <<"ADC", "ZPG", 2, 3>>  \* 0x65
      [] opcode = 117 -> <<"ADC", "ZPX", 2, 4>>  \* 0x75
      [] opcode = 109 -> <<"ADC", "ABS", 3, 4>>  \* 0x6d
      [] opcode = 125 -> <<"ADC", "ABX", 3, 4>>  \* 0x7d
      [] opcode = 121 -> <<"ADC", "ABY", 3, 4>>  \* 0x79
      [] opcode =  97 -> <<"ADC", "IDX", 2, 6>>  \* 0x61
      [] opcode = 113 -> <<"ADC", "IDY", 2, 5>>  \* 0x71
      [] opcode = 198 -> <<"DEC", "ZPG", 2, 5>>  \* 0xc6
      [] opcode = 214 -> <<"DEC", "ZPX", 2, 6>>  \* 0xd6
      [] opcode = 206 -> <<"DEC", "ABS", 3, 6>>  \* 0xce
      [] opcode = 222 -> <<"DEC", "ABX", 3, 7>>  \* 0xde
      [] opcode = 202 -> <<"DEX", "IMP", 1, 2>>  \* 0xca
      [] opcode = 136 -> <<"DEY", "IMP", 1, 2>>  \* 0x88
      [] opcode = 230 -> <<"INC", "ZPG", 2, 5>>  \* 0xe6
      [] opcode = 246 -> <<"INC", "ZPX", 2, 6>>  \* 0xf6
      [] opcode = 238 -> <<"INC", "ABS", 3, 6>>  \* 0xee
      [] opcode = 254 -> <<"INC", "ABX", 3, 7>>  \* 0xfe
      [] opcode = 232 -> <<"INX", "IMP", 1, 2>>  \* 0xe8
      [] opcode = 200 -> <<"INY", "IMP", 1, 2>>  \* 0xc8
      [] opcode = 233 -> <<"SBC", "IMM", 2, 2>>  \* 0xe9
      [] opcode = 229 -> <<"SBC", "ZPG", 2, 3>>  \* 0xe5
      [] opcode = 245 -> <<"SBC", "ZPX", 2, 4>>  \* 0xf5
      [] opcode = 237 -> <<"SBC", "ABS", 3, 5>>  \* 0xed
      [] opcode = 253 -> <<"SBC", "ABX", 3, 5>>  \* 0xfd
      [] opcode = 249 -> <<"SBC", "ABY", 3, 5>>  \* 0xf9
      [] opcode = 225 -> <<"SBC", "IDX", 2, 6>>  \* 0xe1
      [] opcode = 241 -> <<"SBC", "IDY", 2, 5>>  \* 0xf1
      [] opcode =  41 -> <<"AND", "IMM", 2, 2>>  \* 0x29
      [] opcode =  37 -> <<"AND", "ZPG", 2, 3>>  \* 0x25
      [] opcode =  53 -> <<"AND", "ZPX", 2, 4>>  \* 0x35
      [] opcode =  45 -> <<"AND", "ABS", 3, 4>>  \* 0x2d
      [] opcode =  61 -> <<"AND", "ABX", 3, 4>>  \* 0x3d
      [] opcode =  57 -> <<"AND", "ABY", 3, 4>>  \* 0x39
      [] opcode =  33 -> <<"AND", "IDX", 2, 6>>  \* 0x21
      [] opcode =  49 -> <<"AND", "IDY", 2, 5>>  \* 0x31
      [] opcode =  10 -> <<"ASL", "ACC", 1, 2>>  \* 0x0a
      [] opcode =   6 -> <<"ASL", "ZPG", 2, 5>>  \* 0x06
      [] opcode =  22 -> <<"ASL", "ZPX", 2, 6>>  \* 0x16
      [] opcode =  14 -> <<"ASL", "ABS", 3, 6>>  \* 0x0e
      [] opcode =  30 -> <<"ASL", "ABX", 3, 7>>  \* 0x1e
      [] opcode =  36 -> <<"BIT", "ZPG", 2, 3>>  \* 0x24
      [] opcode =  44 -> <<"BIT", "ABS", 3, 4>>  \* 0x2c
      [] opcode =  73 -> <<"EOR", "IMM", 2, 2>>  \* 0x49
      [] opcode =  69 -> <<"EOR", "ZPG", 2, 3>>  \* 0x45
      [] opcode =  85 -> <<"EOR", "ZPX", 2, 4>>  \* 0x55
      [] opcode =  77 -> <<"EOR", "ABS", 3, 4>>  \* 0x4d
      [] opcode =  93 -> <<"EOR", "ABX", 3, 4>>  \* 0x5d
      [] opcode =  89 -> <<"EOR", "ABY", 3, 4>>  \* 0x59
      [] opcode =  65 -> <<"EOR", "IDX", 2, 6>>  \* 0x41
      [] opcode =  81 -> <<"EOR", "IDY", 2, 5>>  \* 0x51
      [] opcode =  74 -> <<"LSR", "ACC", 1, 2>>  \* 0x4a
      [] opcode =  70 -> <<"LSR", "ZPG", 2, 5>>  \* 0x46
      [] opcode =  86 -> <<"LSR", "ZPX", 2, 6>>  \* 0x56
      [] opcode =  78 -> <<"LSR", "ABS", 3, 6>>  \* 0x4e
      [] opcode =  94 -> <<"LSR", "ABX", 3, 7>>  \* 0x5e
      [] opcode =   9 -> <<"ORA", "IMM", 2, 2>>  \* 0x09
      [] opcode =   5 -> <<"ORA", "ZPG", 2, 3>>  \* 0x05
      [] opcode =  21 -> <<"ORA", "ZPX", 2, 4>>  \* 0x15
      [] opcode =  13 -> <<"ORA", "ABS", 3, 4>>  \* 0x0d
      [] opcode =  29 -> <<"ORA", "ABX", 3, 4>>  \* 0x1d
      [] opcode =  25 -> <<"ORA", "ABY", 3, 4>>  \* 0x19
      [] opcode =   1 -> <<"ORA", "IDX", 2, 6>>  \* 0x01
      [] opcode =  17 -> <<"ORA", "IDY", 2, 5>>  \* 0x11
      [] opcode =  42 -> <<"ROL", "ACC", 1, 2>>  \* 0x2a
      [] opcode =  38 -> <<"ROL", "ACC", 2, 5>>  \* 0x26
      [] opcode =  54 -> <<"ROL", "ACC", 2, 6>>  \* 0x36
      [] opcode =  46 -> <<"ROL", "ACC", 3, 6>>  \* 0x2e
      [] opcode =  62 -> <<"ROL", "ACC", 3, 7>>  \* 0x3e
      [] opcode = 106 -> <<"ROR", "ACC", 1, 2>>  \* 0x6a
      [] opcode = 102 -> <<"ROR", "ACC", 2, 5>>  \* 0x66
      [] opcode = 118 -> <<"ROR", "ACC", 2, 6>>  \* 0x76
      [] opcode = 110 -> <<"ROR", "ACC", 3, 6>>  \* 0x6e
      [] opcode = 126 -> <<"ROR", "ACC", 3, 7>>  \* 0x7e
      [] opcode =  16 -> <<"BPL", "REL", 2, 2>>  \* 0x10
      [] opcode =  48 -> <<"BMI", "REL", 2, 2>>  \* 0x30
      [] opcode =  80 -> <<"BVC", "REL", 2, 2>>  \* 0x50
      [] opcode = 112 -> <<"BVS", "REL", 2, 2>>  \* 0x70
      [] opcode = 144 -> <<"BCC", "REL", 2, 2>>  \* 0x90
      [] opcode = 176 -> <<"BCS", "REL", 2, 2>>  \* 0xb0
      [] opcode = 208 -> <<"BNE", "REL", 2, 2>>  \* 0xd0
      [] opcode = 240 -> <<"BEQ", "REL", 2, 2>>  \* 0xf0
      [] opcode =  76 -> <<"JMP", "ABS", 3, 3>>  \* 0x4c
      [] opcode = 108 -> <<"JMP", "IND", 3, 5>>  \* 0x6c
      [] opcode =  32 -> <<"JSR", "ABS", 3, 6>>  \* 0x20
      [] opcode =  64 -> <<"RTI", "IMP", 1, 6>>  \* 0x40
      [] opcode =  96 -> <<"RTS", "IMP", 1, 6>>  \* 0x60
      [] opcode =  24 -> <<"CLC", "IMP", 1, 2>>  \* 0x18
      [] opcode =  56 -> <<"SEC", "IMP", 1, 2>>  \* 0x38
      [] opcode =  88 -> <<"CLI", "IMP", 1, 2>>  \* 0x58
      [] opcode = 120 -> <<"SEI", "IMP", 1, 2>>  \* 0x78
      [] opcode = 184 -> <<"CLV", "IMP", 1, 2>>  \* 0xb8
      [] opcode = 216 -> <<"CLD", "IMP", 1, 2>>  \* 0xd8
      [] opcode = 248 -> <<"SED", "IMP", 1, 2>>  \* 0xf8
      [] opcode = 201 -> <<"CMP", "IMM", 2, 2>>  \* 0xc9
      [] opcode = 197 -> <<"CMP", "ZPG", 2, 3>>  \* 0xc5
      [] opcode = 213 -> <<"CMP", "ZPX", 2, 4>>  \* 0xd5
      [] opcode = 205 -> <<"CMP", "ABS", 3, 4>>  \* 0xcd
      [] opcode = 221 -> <<"CMP", "ABX", 3, 4>>  \* 0xdd
      [] opcode = 217 -> <<"CMP", "ABY", 3, 4>>  \* 0xd9
      [] opcode = 193 -> <<"CMP", "IDX", 2, 6>>  \* 0xc1
      [] opcode = 209 -> <<"CMP", "IDY", 2, 5>>  \* 0xd1
      [] opcode = 224 -> <<"CPX", "IMM", 2, 2>>  \* 0xe0
      [] opcode = 228 -> <<"CPX", "ZPG", 2, 3>>  \* 0xe4
      [] opcode = 236 -> <<"CPX", "ABS", 3, 4>>  \* 0xec
      [] opcode = 192 -> <<"CPY", "IMM", 2, 2>>  \* 0xc0
      [] opcode = 196 -> <<"CPY", "ZPG", 2, 3>>  \* 0xc4
      [] opcode = 204 -> <<"CPY", "ABS", 3, 4>>  \* 0xcc
      [] opcode =  72 -> <<"PHA", "IMP", 1, 3>>  \* 0x48
      [] opcode =   8 -> <<"PHP", "IMP", 1, 3>>  \* 0x08
      [] opcode = 104 -> <<"PLA", "IMP", 1, 4>>  \* 0x68
      [] opcode =  40 -> <<"PLP", "IMP", 1, 4>>  \* 0x28
      [] opcode =   0 -> <<"BRK", "IMP", 1, 7>>  \* 0x00
      [] opcode = 234 -> <<"NOP", "IMP", 1, 2>>  \* 0xea
      [] OTHER -> <<"UNKNOWN", "UNKNOWN", 1, 1>>

\* struct InstructionDeNovo, as disassemble builds it at offset pc.
InstructionDeNovo(offset, opcode, operands) ==
    LET entry == DisassemblerMatch(opcode)
    IN  [address |-> (offset + 32768) % AddressRange,
         opcode |-> opcode,
         mnemonic |-> entry[1],
         mode |-> entry[2],
         length |-> entry[3],
         cycles |-> entry[4],
         operands |-> operands]

\* let prg_size = rom.header.prg_size * PRG_ROM_PAGE_LENGTH
PrgSize(r) == r.header.prg_size * PRG_ROM_PAGE_LENGTH

\* main: the loaded result is unwrapped and handed to disassemble, which
\* starts at offset 0.
unwrap ==
    /\ panic = NoPanic
    /\ loaded # NotLoaded
    /\ rom = NoRom
    /\ IF loaded.kind = "Ok"
       THEN /\ rom' = loaded.val
            /\ dis_pc' = 0
            /\ UNCHANGED panic
       ELSE /\ panic' = Panicked("called Result::unwrap() on an Err value", 0)
            /\ UNCHANGED <<rom, dis_pc>>
    /\ UNCHANGED <<table, memory, a, x, y, pc, s, p, status, program, stdout, call,
                   buf, loaded, pipodekloon, returned>>

\* disassemble_iteration, were it to stay on an opcode it does not know.
disassemble_iteration_stalls ==
    /\ panic = NoPanic
    /\ rom # NoRom
    /\ ~returned
    /\ dis_pc < PrgSize(rom)
    /\ UNCHANGED <<table, memory, a, x, y, pc, s, p, status, program, stdout, call,
                   buf, loaded, rom, returned>>
    /\ IF dis_pc >= rom.prg_rom.len
       THEN /\ panic' = Panicked("index out of bounds", dis_pc)
            /\ UNCHANGED <<dis_pc, pipodekloon>>
       ELSE LET opcode == VecAt(rom.prg_rom, dis_pc)
                length == DisassemblerMatch(opcode)[3]
                wanted == length - 1
            IN  IF length \notin {1, 2, 3}
                THEN /\ panic' = Panicked("Illegal instruction definition found!", opcode)
                     /\ UNCHANGED <<dis_pc, pipodekloon>>
                ELSE IF \E k \in 1..wanted : dis_pc + k >= rom.prg_rom.len
                THEN \* the first of rom.prg_rom[pc + 1], rom.prg_rom[pc + 2]
                     \* whose index is outside prg_rom
                     /\ panic' = Panicked("index out of bounds",
                                          dis_pc + (CHOOSE j \in 1..wanted :
                                              /\ dis_pc + j >= rom.prg_rom.len
                                              /\ \A k \in 1..(j - 1) :
                                                     dis_pc + k < rom.prg_rom.len))
                     /\ UNCHANGED <<dis_pc, pipodekloon>>
                ELSE /\ pipodekloon' = InstructionDeNovo(dis_pc, opcode,
                             [k \in 1..wanted |-> VecAt(rom.prg_rom, dis_pc + k)])
                     /\ dis_pc' = IF DisassemblerMatch(opcode)[1] = "UNKNOWN"
                                  THEN dis_pc ELSE dis_pc + length
                     /\ UNCHANGED panic

\* disassemble, one iteration of its while loop with the loop test true.
disassemble_iteration ==
    /\ panic = NoPanic
    /\ rom # NoRom
    /\ ~returned
    /\ dis_pc < PrgSize(rom)
    /\ UNCHANGED <<table, memory, a, x, y, pc, s, p, status, program, stdout, call,
                   buf, loaded, rom, returned>>
    /\ IF dis_pc >= rom.prg_rom.len
       THEN /\ panic' = Panicked("index out of bounds", dis_pc)
            /\ UNCHANGED <<dis_pc, pipodekloon>>
       ELSE LET opcode == VecAt(rom.prg_rom, dis_pc)
                length == DisassemblerMatch(opcode)[3]
                wanted == length - 1
            IN  IF length \notin {1, 2, 3}
                THEN /\ panic' = Panicked("Illegal instruction definition found!", opcode)
                     /\ UNCHANGED <<dis_pc, pipodekloon>>
                ELSE IF \E k \in 1..wanted : dis_pc + k >= rom.prg_rom.len
                THEN \* the first of rom.prg_rom[pc + 1], rom.prg_rom[pc + 2]
                     \* whose index is outside prg_rom
                     /\ panic' = Panicked("index out of bounds",
                                          dis_pc + (CHOOSE j \in 1..wanted :
                                              /\ dis_pc + j >= rom.prg_rom.len
                                              /\ \A k \in 1..(j - 1) :
                                                     dis_pc + k < rom.prg_rom.len))
                     /\ UNCHANGED <<dis_pc, pipodekloon>>
                ELSE /\ pipodekloon' = InstructionDeNovo(dis_pc, opcode,
                             [k \in 1..wanted |-> VecAt(rom.prg_rom, dis_pc + k)])
                     /\ dis_pc' = dis_pc + length
                     /\ UNCHANGED panic

\* disassemble, the loop test false: the function returns.
disassemble_return ==
    /\ panic = NoPanic
    /\ rom # NoRom
    /\ ~returned
    /\ ~(dis_pc < PrgSize(rom))
    /\ returned' = TRUE
    /\ UNCHANGED <<table, memory, a, x, y, pc, s, p, status, program, stdout, call,
                   buf, loaded, rom, dis_pc, pipodekloon, panic>>

\* -------------------------------------------------------- specifications
\* No file has been loaded and no disassembly started.
RomIdle ==
    /\ buf = NoBuffer
    /\ loaded = NotLoaded
    /\ rom = NoRom
    /\ dis_pc = 0
    /\ pipodekloon = NoLine
    /\ returned = FALSE

\* The decoder applied to every opcode byte in turn.
InitDecode ==
    /\ table = <<>>
    /\ Cpu_new(<<>>)
    /\ RomIdle

NextDecode == Decode

SpecDecode == InitDecode /\ [][NextDecode]_vars

\* The CPU, created with a program image, driven by its operations.
Init ==
    /\ table = <<>>
    /\ \E image \in Programs : Cpu_new(image)
    /\ RomIdle

Next ==
    \/ step
    \/ \E value \in WriteValues : ImmediateAddressing_write(value)

Spec == Init /\ [][Next]_vars

\* The program images of the specification below.
CpuPrograms == UNION {[1..n -> ProgBytes] : n \in 0..MaxCpuProgLen}

\* The CPU, created with a program image, powered on, reset and stepped by
\* either snapshot of step.
InitCpu ==
    /\ table = <<>>
    /\ \E image \in CpuPrograms : Cpu_new(image)
    /\ RomIdle

NextCpu ==
    \/ step
    \/ CPU_step
    \/ power_on
    \/ reset

SpecCpu == InitCpu /\ [][NextCpu]_vars

\* The program counters and working memories the operand reads are given: the
\* PC at the start, at the end and past the end of the 2048 cells and at the
\* end of its 16 bits; the memory as created, and one with operand bytes in it.
ProgramCounters == {0, 2040, 2047, 2048, 65530, 65535}
MemoryImages ==
    {<<>>,
     [i \in {0, 1, 5, 255, 2040, 2041, 2047} |->
        CASE i = 0 -> 5 [] i = 1 -> 255 [] i = 5 -> 17 [] i = 255 -> 9
          [] i = 2040 -> 255 [] i = 2041 -> 1 [] OTHER -> 128]}

\* The CPU of the CPU/mod.rs snapshot, its operands read through the
\* addressing modes.
InitAddr ==
    /\ table = <<>>
    /\ memory \in MemoryImages
    /\ a = 0 /\ x = 0 /\ y = 0 /\ s = 0 /\ p = 0
    /\ pc \in ProgramCounters
    /\ status = 0
    /\ program = <<>>
    /\ stdout = <<>>
    /\ panic = NoPanic
    /\ call = Called("new")
    /\ RomIdle

NextAddr ==
    \/ ImmediateAddressing_read
    \/ ZeroPageAddressing_read

SpecAddr == InitAddr /\ [][NextAddr]_vars

\* The sixteen header bytes parse_header reads: the magic, PRG and CHR page
\* counts, flags 6 and 7, PRG RAM size, flags 9 and 10, five unused bytes.
HeaderBytes(magic, prg_size, chr_size, flags6, flags7, flags9) ==
    magic \o <<prg_size, chr_size, flags6, flags7, 0, flags9, 0>> \o <<0, 0, 0, 0, 0>>

\* The number of bytes parse_ines consumes for a header with these fields.
HeaderLength == 3 + 1 + 7 + 5

ImageLength(prg_size, chr_size, flags6) ==
    HeaderLength
    + (IF contains(flags6, Flags6_TRAINER) THEN TRAINER_LENGTH ELSE 0)
    + prg_size * PRG_ROM_PAGE_LENGTH
    + chr_size * CHR_ROM_PAGE_LENGTH

\* A file of `size` bytes that starts with (a prefix of) header and goes on
\* with pattern.
File(size, header, pattern) ==
    [size |-> size, header |-> SubSeq(header, 1, Min(size, Len(header))),
     pattern |-> pattern]

\* The files given to the loader: good and bad magic, declared sizes up to the
\* bounds, flag bytes with and without undeclared bits, and lengths that cut
\* the image in its header, its trainer, its PRG or CHR pages, or not at all.
Magics == {<<78, 69, 83, 26>>, <<78, 69, 83, 0>>, <<77, 69, 83, 26>>}
Flags6Bytes == {0, 4, 9, 20, 240}
Flags7Bytes == {0, 1, 2, 12, 16, 128}
Flags9Bytes == {0, 1, 2}
BodyPattern == <<1, 2, 3, 4, 5>>

FileSizes(total) ==
    {n \in {0, 2, 3, 4, 10, HeaderLength - 1, HeaderLength,
            HeaderLength + TRAINER_LENGTH - 1, HeaderLength + TRAINER_LENGTH,
            total - CHR_ROM_PAGE_LENGTH, total - 1, total, total + 1} : n >= 0}

Files ==
    UNION {{File(size, HeaderBytes(f[1], f[2], f[3], f[4], f[5], f[6]), BodyPattern) :
               size \in FileSizes(ImageLength(f[2], f[3], f[4]))} :
           f \in Magics \X (0..MaxPrgPages) \X (0..MaxChrPages)
                        \X Flags6Bytes \X Flags7Bytes \X Flags9Bytes}

\* The loader, given one file.
InitRom ==
    /\ table = <<>>
    /\ Cpu_new(<<>>)
    /\ buf \in Files
    /\ loaded = NotLoaded
    /\ rom = NoRom
    /\ dis_pc = 0
    /\ pipodekloon = NoLine
    /\ returned = FALSE

NextRom == load_from_file

SpecRom == InitRom /\ [][NextRom]_vars

\* The PRG fillings disassembled: a one-byte instruction, an opcode the table
\* does not know, a two-byte and a three-byte instruction, and a mix.
PrgPatterns == {<<234>>, <<2>>, <<169>>, <<173>>, <<10, 169, 0, 2, 76, 0, 128>>}

\* Well-formed images: magic, no PRG page, one, or as many as the bound, no
\* CHR pages, no trainer, no flags, exactly as long as the header declares.
DisasmFiles ==
    {File(ImageLength(n, 0, 0), HeaderBytes(<<78, 69, 83, 26>>, n, 0, 0, 0, 0), pattern) :
        n \in {0, 1, MaxDisasmPages}, pattern \in PrgPatterns}

\* main's disassemble subcommand on one file: load, unwrap, disassemble.
InitDisasm ==
    /\ table = <<>>
    /\ Cpu_new(<<>>)
    /\ buf \in DisasmFiles
    /\ loaded = NotLoaded
    /\ rom = NoRom
    /\ dis_pc = 0
    /\ pipodekloon = NoLine
    /\ returned = FALSE

NextDisasm ==
    \/ load_from_file
    \/ unwrap
    \/ disassemble_iteration
    \/ disassemble_return

SpecDisasm == InitDisasm /\ [][NextDisasm]_vars

\* ---------------------------------------------------------------- claims
\* bitflags StatusRegister: the Carry, Zero and Negative masks.
StatusRegister_C == 1
StatusRegister_Z == 2
StatusRegister_N == 128

\* StatusRegister::contains for a one-bit mask.
FlagSet(bits, mask) == (bits \div mask) % 2 = 1

\* The entries decode has produced for documented / undocumented opcodes.
Decoded == 1..Len(table)

\* C1: for every opcode byte 0..255 decode returns exactly one Instruction,
\* whose opcode field is the input byte, and never panics.
C1_DecodeTotal ==
    \A i \in Decoded : table[i] \in Instruction /\ table[i].opcode = i - 1

\* C1 witness: all 256 bytes have been decoded, an undefined one (0x03) and a
\* defined one (0xa9) among them.
C1_Witness ==
    /\ Len(table) = ByteRange
    /\ table[4].mnemonic = "UNKNOWN"
    /\ table[170].mnemonic = "LDA"

\* C2 (as claimed): for every opcode byte the decoded length is 1 plus the
\* operand-byte count of the decoded addressing mode.
C2_LengthMatchesMode ==
    \A i \in Decoded : table[i].length = 1 + OperandBytes(table[i].mode)

\* C3 (as claimed): for every documented opcode, decode's (mnemonic, mode,
\* length, cycles) equals the entry of the published reference table.
C3_MatchesReference ==
    \A i \in Decoded :
        (i - 1) \in LegalOpcodes =>
            <<table[i].mnemonic, table[i].mode, table[i].length, table[i].cycles>>
                = Reference(i - 1)

\* C4 (as claimed): every opcode byte that is not a documented opcode decodes
\* to mnemonic UNKNOWN, mode UNKNOWN, length 1 and cycles 2.
C4_UnknownVariant ==
    \A i \in Decoded :
        (i - 1) \notin LegalOpcodes =>
            table[i] = Instruction_new(i - 1, "UNKNOWN", "UNKNOWN", 1, 2)

\* C5: decode maps exactly 151 opcode bytes to a non-UNKNOWN instruction, and
\* among them each of the 56 mnemonics and each of the 13 addressing modes
\* occurs at least once.
C5_TableComplete ==
    Len(table) = ByteRange =>
        LET known == {i \in Decoded : table[i].mnemonic # "UNKNOWN"}
        IN  /\ Cardinality(known) = 151
            /\ {table[i].mnemonic : i \in known} = Mnemonic
            /\ Cardinality(Mnemonic) = 56
            /\ {table[i].mode : i \in known} = AddressingMode
            /\ Cardinality(AddressingMode) = 13

\* C5 witness: the whole table has been decoded and holds the one
\* indirect-mode entry, JMP (0x6c).
C5_Witness ==
    /\ Len(table) = ByteRange
    /\ table[109].mnemonic = "JMP"
    /\ table[109].mode = "IND"

\* C6: a step at a PC inside the program advances PC by the decoded length,
\* which is at least one byte (exactly 1 for an unknown opcode), so PC after
\* the step differs from PC before it.
C6_StepAdvances ==
    [][Len(stdout') = Len(stdout) + 1 =>
         LET instruction == stdout'[Len(stdout')].instruction
         IN  /\ instruction.opcode = program[pc + 1]
             /\ pc' = (pc + instruction.length) % AddressRange
             /\ ((pc' - pc) % AddressRange) >= 1
             /\ pc' # pc
             /\ (instruction.mnemonic = "UNKNOWN" =>
                    pc' = (pc + 1) % AddressRange)]_vars

\* C6 witness: a step has just decoded an unknown opcode and moved PC past it.
C6_Witness ==
    /\ Len(stdout) > 0
    /\ stdout[Len(stdout)].instruction.mnemonic = "UNKNOWN"
    /\ pc = Len(stdout)
    /\ panic = NoPanic

\* C7 (as claimed): with program bytes loaded, no step call in any sequence
\* of step calls aborts.
C7_StepNeverAborts ==
    Len(program) > 0 => panic.msg # "index out of bounds"

\* C8 (as claimed): with A9 05 69 03 00 loaded and PC 0, after two steps the
\* accumulator is 8, Carry, Zero and Negative are clear, and the two
\* instructions account for 2 + 2 = 4 cycles.
C8_EndToEnd ==
    (program = <<169, 5, 105, 3, 0>> /\ Len(stdout) = 2) =>
        /\ a = 8
        /\ ~FlagSet(status, StatusRegister_C)
        /\ ~FlagSet(status, StatusRegister_Z)
        /\ ~FlagSet(status, StatusRegister_N)
        /\ stdout[1].instruction.cycles + stdout[2].instruction.cycles = 4

\* The instruction boundaries of a program laid out by the reference lengths,
\* from offset i on.
RECURSIVE Boundaries(_, _)
Boundaries(prog, i) ==
    IF i >= Len(prog) THEN {i}
    ELSE LET ref == Reference(prog[i + 1])
             size == IF ref[1] = "ILLEGAL" THEN 1 ELSE 1 + OperandBytes(ref[2])
         IN  {i} \cup Boundaries(prog, i + size)

\* A program made only of documented non-control-transfer instructions laid
\* out back to back, the last one complete.
BackToBack(prog) ==
    /\ Len(prog) \in Boundaries(prog, 0)
    /\ \A b \in Boundaries(prog, 0) :
         b < Len(prog) =>
            /\ prog[b + 1] \in LegalOpcodes
            /\ Reference(prog[b + 1])[1] \notin ControlTransfer

\* C9 (as claimed): stepping from PC 0 over such a program, PC after every
\* step is the address of an instruction's opcode byte (or the end).
C9_PcOnBoundary ==
    (BackToBack(program) /\ panic = NoPanic) => pc \in Boundaries(program, 0)

\* C10: a write through an immediate operand is always rejected: it panics
\* and stores nothing in memory or registers.
C10_ImmediateWriteRejected ==
    [][\A value \in WriteValues :
         ImmediateAddressing_write(value) =>
            /\ panic' = Panicked("Tried to write to an immediate address.", value)
            /\ UNCHANGED <<memory, a, x, y, pc, s, p, status, program>>]_vars

\* C10 witness: after some steps a write of 0xFF through an immediate operand
\* has panicked.
C10_Witness ==
    /\ panic = Panicked("Tried to write to an immediate address.", 255)
    /\ Len(stdout) > 0

\* bitflags StatusRegister: the Interrupt mask.
StatusRegister_I == 4

\* C11 (as claimed): reset, applied in any CPU state, decrements the stack
\* pointer by 3 (wrapping at 8 bits), sets the interrupt-disable flag and
\* leaves A, X and Y unchanged. (The Cpu has no reset vector to load PC from,
\* so that part of the claim has nothing to be compared with.)
C11_Reset ==
    call.op = "reset" =>
        /\ s = (call.pre.s + ByteRange - 3) % ByteRange
        /\ FlagSet(status, StatusRegister_I)
        /\ a = call.pre.a /\ x = call.pre.x /\ y = call.pre.y

\* C12: power_on sets the status flags to 0xFD whatever the prior state and
\* leaves A, X, Y, PC, S, P, working memory and the program unchanged; so
\* after Cpu::new and power_on every register other than the flags is zero.
C12_PowerOn ==
    call.op = "power_on" =>
        /\ status = 253
        /\ <<a, x, y, pc, s, p>> =
              <<call.pre.a, call.pre.x, call.pre.y, call.pre.pc, call.pre.s, call.pre.p>>
        /\ memory = call.pre.memory
        /\ program = call.pre.program
        /\ (stdout = <<>> => <<a, x, y, pc, s, p>> = <<0, 0, 0, 0, 0, 0>>)

\* C12 witness: power_on has been called on a Cpu that had already stepped
\* and whose flags were still 0.
C12_Witness ==
    /\ call.op = "power_on"
    /\ call.pre.pc > 0
    /\ call.pre.status = 0
    /\ status = 253

\* C15 (as claimed): decode's length is 1, 2 or 3 for every program byte, so
\* the operand fetch of step never reaches its "Illegal OpCode definition"
\* abort.
C15_NoIllegalDefinition ==
    (call.op = "CPU_step" /\ call.pre.pc < Len(program)) =>
        /\ decode(program[call.pre.pc + 1]).length \in {1, 2, 3}
        /\ panic.msg # "Illegal OpCode definition"

\* C17: step changes only the program counter: A, X, Y, S, P, the status
\* flags, working memory and the program are after any step what they were
\* before it.
C17_StepFrame ==
    call.op \in {"step", "CPU_step"} =>
        /\ <<a, x, y, s, p>> = <<call.pre.a, call.pre.x, call.pre.y, call.pre.s, call.pre.p>>
        /\ status = call.pre.status
        /\ memory = call.pre.memory
        /\ program = call.pre.program

\* C17 witness: a step has decoded LDA #5 on a powered-on Cpu and moved PC.
C17_Witness ==
    /\ call.op = "step"
    /\ call.pre.status = 253
    /\ Len(stdout) > 0
    /\ stdout[Len(stdout)].instruction.mnemonic = "LDA"
    /\ pc = call.pre.pc + 2

\* C18 (as claimed): the operands step gathers for the instruction at PC are
\* exactly the length - 1 bytes that follow the opcode byte in the program,
\* in order, and never include the opcode byte.
C18_OperandsFollowOpcode ==
    (/\ call.op \in {"step", "CPU_step"}
     /\ pc # call.pre.pc
     /\ Len(stdout) > 0
     /\ call.pre.pc + stdout[Len(stdout)].instruction.length <= Len(program)) =>
        LET line == stdout[Len(stdout)]
        IN  line.operands =
               SubSeq(program, call.pre.pc + 2, call.pre.pc + line.instruction.length)

\* The first four bytes of b are the iNES magic "NES" 0x1A.
MagicOk(b) ==
    /\ b.size >= 4
    /\ <<BufAt(b, 0), BufAt(b, 1), BufAt(b, 2), BufAt(b, 3)>> = <<78, 69, 83, 26>>

\* b ends before the end of the header or of the trainer, PRG and CHR
\* sections its header declares.
Truncated(b) ==
    \/ b.size < HeaderLength
    \/ b.size < ImageLength(BufAt(b, 4), BufAt(b, 5), BufAt(b, 6))

\* load_from_file has been called: it returned or it aborted.
LoadCalled == loaded # NotLoaded \/ panic # NoPanic

\* C13: a buffer that lacks the magic, or that ends before the end of its
\* declared sections, makes load return an Err, whatever its other header
\* bytes are.
C13_BadFileIsErr ==
    (LoadCalled /\ (~MagicOk(buf) \/ Truncated(buf))) => loaded.kind = "Err"

\* b has four leading bytes and they are not the magic.
BadMagic(b) == b.size >= 4 /\ ~MagicOk(b)

\* The files with the magic and a whole header that load refuses: they end
\* inside their trainer, PRG or CHR section.
TruncatedSections ==
    {f \in Files : MagicOk(f) /\ f.size >= HeaderLength /\ Truncated(f)
                     /\ load(f).kind = "Err"}

\* C14: the error value load returns for a bad magic number differs from the
\* one it returns for a file cut short in its trainer, PRG or CHR section.
C14_ReasonNamesCause ==
    (loaded.kind = "Err" /\ BadMagic(buf)) =>
        \A f \in TruncatedSections : load(f) # loaded

\* C16: the disassembler's opcode table and decode give every opcode byte
\* 0..255 the same mnemonic, addressing mode, length and cycle count.
C16_TablesAgree ==
    \A i \in Decoded :
        <<table[i].mnemonic, table[i].mode, table[i].length, table[i].cycles>>
            = DisassemblerMatch(i - 1)

\* C19: for every successfully loaded ROM, disassemble reads only indices
\* inside prg_rom and never aborts, also when program ROM ends with the opcode
\* of a 2- or 3-byte instruction.
C19_DisassembleInRange == rom # NoRom => panic = NoPanic

\* One step of the disassembly: a line is printed only while the offset is
\* below prg_size x 16384 and takes the offset 1, 2 or 3 bytes further, the
\* printed instruction's length, which is 1 for an unknown opcode; the offset
\* moves in no other way, and once it has reached or passed that size the
\* only step left is the return.
LoopStep ==
    /\ pipodekloon' # pipodekloon =>
           /\ dis_pc < PrgSize(rom)
           /\ dis_pc' - dis_pc \in 1..3
           /\ dis_pc' - dis_pc = pipodekloon'.length
           /\ pipodekloon'.mnemonic = "UNKNOWN" => dis_pc' = dis_pc + 1
    /\ dis_pc' # dis_pc => pipodekloon' # pipodekloon
    /\ returned' # returned => dis_pc >= PrgSize(rom)
    /\ rom' # NoRom => dis_pc' <= PrgSize(rom') + 2
    /\ (rom # NoRom /\ dis_pc >= PrgSize(rom)) =>
           /\ <<dis_pc', pipodekloon', panic'>> = <<dis_pc, pipodekloon, panic>>
           /\ returned'

\* C20: disassemble terminates on every program ROM whose reads stay in
\* range: each loop iteration advances the offset by 1, 2 or 3 bytes (1 for an
\* unknown opcode), and the loop stops the first time the offset reaches or
\* passes prg_size x 16384. The offset, which never exceeds that size by more
\* than 2, is the variant of the loop.
C20_Terminates == [][LoopStep]_vars

C20_Witness ==
    /\ returned
    /\ PrgSize(rom) > 0
    /\ dis_pc = PrgSize(rom)
    /\ pipodekloon.mnemonic = "UNKNOWN"
    /\ pipodekloon.address = (dis_pc - 1 + 32768) % AddressRange

\* C21: for every byte buffer, load returns Ok or Err and never aborts,
\* whatever the flags-6, flags-7 and flags-9 bytes are: also for a complete
\* image whose flags-7 byte has an upper bit set or whose flags-9 byte has a
\* bit other than bit 0 set.
C21_LoadNeverAborts ==
    /\ panic = NoPanic
    /\ loaded.kind \in {"NotLoaded", "Ok", "Err"}

\* b has the magic and a whole header, and is longer than the header, trainer,
\* PRG and CHR sections it declares.
TrailingBytes(b) ==
    /\ MagicOk(b)
    /\ b.size >= HeaderLength
    /\ b.size > ImageLength(BufAt(b, 4), BufAt(b, 5), BufAt(b, 6))

\* C22: a buffer with extra bytes after the declared character ROM is
\* rejected by load with Err rather than loaded.
C22_TrailingBytesRejected ==
    (loaded # NotLoaded /\ TrailingBytes(buf)) => loaded.kind = "Err"

\* C23: the mapper field of every loaded header is the iNES mapper number:
\* upper four bits from the upper four bits of the flags-7 byte, lower four
\* bits from the upper four bits of the flags-6 byte.
C23_MapperNumber ==
    loaded.kind = "Ok" =>
        loaded.val.header.mapper
            = (BufAt(buf, 7) \div 16) * 16 + (BufAt(buf, 6) \div 16)

\* The offset in the buffer at which the PRG pages start.
PrgStart(b) ==
    HeaderLength + (IF (BufAt(b, 6) \div 4) % 2 = 1 THEN TRAINER_LENGTH ELSE 0)

\* C24: when load returns Ok, prg_rom is exactly the prg_size x 16384 bytes
\* that start at buffer offset 16 (528 when bit 2 of the flags-6 byte is set)
\* and chr_rom is exactly the chr_size x 8192 bytes that follow them, where
\* prg_size and chr_size are header bytes 4 and 5.
C24_SectionsExact ==
    loaded.kind = "Ok" =>
        LET prg_rom == loaded.val.prg_rom
            chr_rom == loaded.val.chr_rom
            prg_len == BufAt(buf, 4) * PRG_ROM_PAGE_LENGTH
            chr_len == BufAt(buf, 5) * CHR_ROM_PAGE_LENGTH
        IN  /\ prg_rom.len = prg_len
            /\ chr_rom.len = chr_len
            /\ \A i \in 0..(prg_len - 1) :
                   VecAt(prg_rom, i) = BufAt(buf, PrgStart(buf) + i)
            /\ \A i \in 0..(chr_len - 1) :
                   VecAt(chr_rom, i) = BufAt(buf, PrgStart(buf) + prg_len + i)

C24_Witness ==
    /\ loaded.kind = "Ok"
    /\ BufAt(buf, 6) = 4
    /\ loaded.val.prg_rom.len = PRG_ROM_PAGE_LENGTH
    /\ loaded.val.chr_rom.len = CHR_ROM_PAGE_LENGTH
    /\ VecAt(loaded.val.prg_rom, 0) = BufAt(buf, 528)
    /\ VecAt(loaded.val.chr_rom, 0) = BufAt(buf, 528 + PRG_ROM_PAGE_LENGTH)

\* The registers other than PC, the status, memory and program are what they
\* were before the last call.
OnlyPcMoved ==
    /\ <<a, x, y, s, p, status>>
           = <<call.pre.a, call.pre.x, call.pre.y, call.pre.s, call.pre.p,
               call.pre.status>>
    /\ memory = call.pre.memory
    /\ program = call.pre.program

\* C25: an immediate-mode read returns the byte at the current program
\* counter and advances the program counter by exactly 1, wrapping at 16 bits;
\* it consumes one operand byte and changes nothing else.
C25_ImmediateRead ==
    call.op = "ImmediateAddressing_read" =>
        /\ panic = NoPanic
        /\ call.value = MemoryAt(call.pre.memory, call.pre.pc)
        /\ pc = (call.pre.pc + 1) % AddressRange
        /\ OnlyPcMoved

\* C26: a zero-page read consumes exactly one operand byte (PC advances by 1)
\* and returns the working-memory byte at the address whose low byte is that
\* operand and whose high byte is 0: an address in 0..255, inside working
\* memory.
C26_ZeroPageRead ==
    call.op = "ZeroPageAddressing_read" =>
        LET operand == MemoryAt(call.pre.memory, call.pre.pc)
        IN  /\ panic = NoPanic
            /\ pc = (call.pre.pc + 1) % AddressRange
            /\ operand \in 0..255
            /\ call.value = MemoryAt(call.pre.memory, operand)
            /\ OnlyPcMoved

\* C27: for every program counter value 0..65535, fetching an operand byte at
\* PC (read_one, read_one_indexed) completes: it never indexes the 2048-byte
\* working memory out of range.
C27_FetchInRange ==
    call.op \in {"ImmediateAddressing_read", "ZeroPageAddressing_read"} =>
        panic.msg # "index out of bounds"

\* C28: in every CPU state reached from Cpu::new by power_on, reset and step
\* the status flags hold only the six named bits C, Z, I, D, V, N: no bit of
\* mask 0x30 is set.
C28_OnlyNamedFlags == BitAnd(status, 48) = 0

\* C29: for every instruction the disassembler emits, the emitted address is
\* 0x8000 plus the instruction's byte offset in program ROM, not truncated.
C29_AddressIsOffset ==
    pipodekloon # NoLine =>
        pipodekloon.address = 32768 + (dis_pc - pipodekloon.length)

====
